---- MODULE Spec2Model ----
(***************************************************************************)
(* Model of the PDF Extractor Tool pipeline (src/Main8_Copy_Right.py):     *)
(* extract_hyperlinks -> reconciliation -> process_pdfs or                 *)
(* copy_files_parallel -> copy_word_file -> save_links_to_xlsx.            *)
(*                                                                         *)
(* Strings are sequences of one-character strings so that strip, unquote,  *)
(* normpath, lower, endswith and basename are computed character by        *)
(* character, as the library functions the code calls compute them.        *)
(* Paths follow the POSIX flavour of os.path ("/" is the separator).       *)
(***************************************************************************)
EXTENDS Integers, Sequences, FiniteSets, TLC

\* ------------------------------------------------------------------ bounds
\* Largest number of hyperlink elements in the input document.
MaxLinks == 3

\* Largest number of file operations of process_pdfs the environment makes
\* fail in one run (a refused open, a write that breaks off); failures that
\* follow from the input, such as an unreadable source PDF or a copy of a
\* file onto itself, are not counted.
MaxFaults == 1

\* Largest number of hyperlinks of a document in the runs on which the cover
\* page's rendering is varied.
MaxCoverLinks == 2

\* ----------------------------------------------------------- string helpers
RECURSIVE DropWhileSpace(_)
DropWhileSpace(s) ==
    IF s # << >> /\ Head(s) = " " THEN DropWhileSpace(Tail(s)) ELSE s

RECURSIVE DropTrailingSpace(_)
DropTrailingSpace(s) ==
    IF s # << >> /\ s[Len(s)] = " "
    THEN DropTrailingSpace(SubSeq(s, 1, Len(s) - 1))
    ELSE s

\* str.strip(): leading and trailing whitespace removed.
strip(s) == DropTrailingSpace(DropWhileSpace(s))

\* The percent escapes that occur in the modelled targets.
HexPairs == { <<"2", "0">>, <<"2", "E">>, <<"2", "e">>, <<"2", "F">> }

HexDecode(p) ==
    IF p = <<"2", "0">> THEN " "
    ELSE IF p = <<"2", "F">> THEN "/"
    ELSE "."

\* urllib.parse.unquote: every %XX escape replaced by the character it names;
\* a "%" that starts no escape is kept.
RECURSIVE unquote(_)
unquote(s) ==
    IF s = << >> THEN << >>
    ELSE IF Head(s) = "%" /\ Len(s) >= 3 /\ <<s[2], s[3]>> \in HexPairs
         THEN <<HexDecode(<<s[2], s[3]>>)>> \o unquote(SubSeq(s, 4, Len(s)))
         ELSE <<Head(s)>> \o unquote(Tail(s))

\* str.split("/"): the components between separators (empty ones included).
RECURSIVE SplitAcc(_, _)
SplitAcc(s, cur) ==
    IF s = << >> THEN <<cur>>
    ELSE IF Head(s) = "/" THEN <<cur>> \o SplitAcc(Tail(s), << >>)
         ELSE SplitAcc(Tail(s), Append(cur, Head(s)))

split(s) == SplitAcc(s, << >>)

\* posixpath.normpath, the loop over components: "" and "." are dropped, ".."
\* removes the previous component unless there is none to remove (relative
\* path) or the path is rooted (then ".." is dropped).
RECURSIVE NormComps(_, _, _)
NormComps(comps, acc, rooted) ==
    IF comps = << >> THEN acc
    ELSE LET c == Head(comps) IN
         IF c = << >> \/ c = <<".">>
         THEN NormComps(Tail(comps), acc, rooted)
         ELSE IF c # <<".", ".">>
                 \/ (~rooted /\ acc = << >>)
                 \/ (acc # << >> /\ acc[Len(acc)] = <<".", ".">>)
              THEN NormComps(Tail(comps), Append(acc, c), rooted)
              ELSE IF acc # << >>
                   THEN NormComps(Tail(comps), SubSeq(acc, 1, Len(acc) - 1), rooted)
                   ELSE NormComps(Tail(comps), acc, rooted)

RECURSIVE JoinSlash(_)
JoinSlash(comps) ==
    IF comps = << >> THEN << >>
    ELSE IF Len(comps) = 1 THEN Head(comps)
         ELSE Head(comps) \o <<"/">> \o JoinSlash(Tail(comps))

\* os.path.normpath
normpath(s) ==
    IF s = << >> THEN <<".">>
    ELSE LET rooted == Head(s) = "/"
             body   == JoinSlash(NormComps(split(s), << >>, rooted))
             path   == IF rooted THEN <<"/">> \o body ELSE body
         IN IF path = << >> THEN <<".">> ELSE path

LowerChar(c) ==
    IF c = "P" THEN "p"
    ELSE IF c = "D" THEN "d"
    ELSE IF c = "F" THEN "f"
    ELSE IF c = "A" THEN "a"
    ELSE c

\* str.lower()
lower(s) == [i \in 1..Len(s) |-> LowerChar(s[i])]

\* str.endswith(suffix)
endswith(s, suffix) ==
    /\ Len(s) >= Len(suffix)
    /\ SubSeq(s, Len(s) - Len(suffix) + 1, Len(s)) = suffix

DotPdf == <<".", "p", "d", "f">>

\* os.path.basename: what follows the last separator.
basename(s) ==
    LET seps == { i \in 1..Len(s) : s[i] = "/" } IN
    IF seps = { } THEN s
    ELSE LET last == CHOOSE i \in seps : \A j \in seps : j <= i
         IN SubSeq(s, last + 1, Len(s))

\* ------------------------------------------------------- names and contents
Str_a_pdf   == <<"a", ".", "p", "d", "f">>
Str_b_pdf   == <<"b", ".", "p", "d", "f">>
Str_d_a_pdf == <<"d", "/", "a", ".", "p", "d", "f">>
Str_n_doc   == <<"n", ".", "d", "o", "c">>

\* Wider targets, used where extract_hyperlinks is examined on its own.
Str_b_PDF      == <<"b", ".", "P", "D", "F">>
Str_a_pdf_sl   == <<"a", ".", "p", "d", "f", "/">>
Str_sp_a_pdf   == <<" ", "a", ".", "p", "d", "f", " ">>
Str_a_2Epdf    == <<"a", "%", "2", "E", "p", "d", "f">>
Str_a_pdf_20   == <<"a", ".", "p", "d", "f", "%", "2", "0">>
Str_dot_a_pdf  == <<".", "/", "a", ".", "p", "d", "f">>
Str_d_up_b_pdf == <<"d", "/", ".", ".", "/", "b", ".", "p", "d", "f">>
Str_pdf        == <<"p", "d", "f">>
Str_a_pdfx     == <<"a", ".", "p", "d", "f", "x">>

\* The directory names of the run.
CentralDir == "central"
DestDir    == "dest"
HomeDir    == "home"

\* File names the pipeline itself writes.
WordName == <<"input.docx">>
XlsxName == <<"extracted_links.xlsx">>

\* A PDF of the central folder: its pages, and whether PyPDF2 can read it
\* (a corrupted or encrypted file is not readable).
SourcePdf(id, n, readable) ==
    [kind |-> "pdf", pages |-> [k \in 1..n |-> <<id, k>>], readable |-> readable]

WordContent    == [kind |-> "docx", pages |-> << >>, readable |-> FALSE]
XlsxContent    == [kind |-> "xlsx", pages |-> << >>, readable |-> FALSE]
PartialContent == [kind |-> "partial", pages |-> << >>, readable |-> FALSE]

\* What the central folder may hold under a name: nothing, a readable PDF or
\* an unreadable one.
NoFile == [kind |-> "none", pages |-> << >>, readable |-> FALSE]

CentralChoices(id, n) == { NoFile, SourcePdf(id, n, TRUE), SourcePdf(id, n, FALSE) }

PresentOrNot(id, n) == { NoFile, SourcePdf(id, n, TRUE) }

\* A directory given as name -> content, only for the names present.
DirOf(a, b) ==
    LET fa == IF a = NoFile THEN << >> ELSE (Str_a_pdf :> a)
        fb == IF b = NoFile THEN << >> ELSE (Str_b_pdf :> b)
    IN fa @@ fb

\* A w:hyperlink element: the joined text of its runs, its relationship
\* ("none": no r:id attribute, "dangling": an id absent from doc.part.rels,
\* "ok": resolves to target) and the relationship's target_ref.
Element(text, rel, target) == [text |-> text, rel |-> rel, target |-> target]

\* The hyperlink elements of the documents the whole pipeline is run on: two
\* different targets with the same basename, and a third file.
DocElements ==
    { Element("A", "ok", Str_a_pdf),
      Element("A2", "ok", Str_d_a_pdf),
      Element("B", "ok", Str_b_pdf) }

SeqsUpTo(S, n) == UNION { [1..k -> S] : k \in 0..n }

\* ------------------------------------------------------------------- state
VARIABLES
    pc,                 \* position of process_word_file
    paths_selected,     \* the three path fields are all non-empty
    doc_loads,          \* docx.Document(word_file_path) succeeds
    doc,                \* the document's hyperlink elements, in document order
    enable_renaming,    \* self.enable_renaming
    add_cover_page,     \* self.add_cover_page
    destination_folder, \* the directory chosen as destination
    dest_kind,          \* what is at the destination path: "dir", "absent", "file"
    word_file_dir,      \* the directory that holds the input document
    files,              \* directory name -> (file name -> content)
    hyperlinks,         \* process_word_file: hyperlinks
    existing_pdfs,      \* process_word_file: existing_pdfs
    missing_pdfs,       \* process_word_file: missing_pdfs
    unique_filenames,   \* process_pdfs: unique_filenames
    processed_count,    \* process_pdfs: processed_count
    written,            \* per processed item: what was read and what was written
    threads,            \* copy_files_parallel: state of each copy thread
    xlsx_unique_filenames, \* save_links_to_xlsx: unique_filenames
    sheet1,             \* save_links_to_xlsx: the data rows appended to sheet1
    faults,             \* file operations the environment has made fail so far
    ARABIC_SUPPORT,     \* the import of bidi and arabic_reshaper succeeded
    registered_fonts,   \* the font names pdfmetrics can set
    shaping_raises,     \* document numbers whose label reshape/get_display or
                        \* the drawing in the "Arabic" font raises on
    draw_raises         \* document numbers whose raw label the drawing in
                        \* Times-Roman raises on

vars == << pc, paths_selected, doc_loads, doc, enable_renaming, add_cover_page,
           destination_folder, dest_kind, word_file_dir, files, hyperlinks,
           existing_pdfs, missing_pdfs, unique_filenames, processed_count,
           written, threads, xlsx_unique_filenames, sheet1, faults,
           ARABIC_SUPPORT, registered_fonts, shaping_raises, draw_raises >>

inputs == << paths_selected, doc_loads, doc, enable_renaming, add_cover_page,
             destination_folder, word_file_dir, ARABIC_SUPPORT,
             registered_fonts, shaping_raises, draw_raises >>

\* ------------------------------------------------------ extract_hyperlinks
\* link_text: the joined run texts, or "Unnamed Link" when they are empty.
LinkText(e) == IF e.text = "" THEN "Unnamed Link" ELSE e.text

\* url = os.path.normpath(urllib.parse.unquote(target_ref.strip()))
Url(e) == normpath(unquote(strip(e.target)))

\* The test without lower(): ".PDF" is not recognised.
KeepsUrlCaseSensitive(url) == endswith(url, DotPdf)

\* if url.lower().endswith(".pdf")
KeepsUrl(url) == endswith(lower(url), DotPdf)

\* The loop of extract_hyperlinks over the hyperlink elements.
RECURSIVE extract_hyperlinks(_)
extract_hyperlinks(d) ==
    IF d = << >> THEN << >>
    ELSE LET e == Head(d) IN
         IF e.rel = "ok" /\ KeepsUrl(Url(e))
         THEN << <<LinkText(e), Url(e)>> >> \o extract_hyperlinks(Tail(d))
         ELSE extract_hyperlinks(Tail(d))

\* ---------------------------------------------------------- reconciliation
\* The existence test without os.path.basename: the target's directory part
\* is looked up too.
ExistsInCentralByFullName(fs, pdf_filename) == pdf_filename \in DOMAIN fs[CentralDir]

\* os.path.exists(os.path.join(central_pdf_folder, os.path.basename(pdf_filename)))
ExistsInCentral(fs, pdf_filename) == basename(pdf_filename) \in DOMAIN fs[CentralDir]

\* The loop of process_word_file that fills existing_pdfs.
RECURSIVE ExistingPdfs(_, _)
ExistingPdfs(fs, links) ==
    IF links = << >> THEN << >>
    ELSE IF ExistsInCentral(fs, Head(links)[2])
         THEN <<Head(links)>> \o ExistingPdfs(fs, Tail(links))
         ELSE ExistingPdfs(fs, Tail(links))

\* The same loop, the else branch: missing_pdfs.
RECURSIVE MissingPdfs(_, _)
MissingPdfs(fs, links) ==
    IF links = << >> THEN << >>
    ELSE IF ExistsInCentral(fs, Head(links)[2])
         THEN MissingPdfs(fs, Tail(links))
         ELSE <<Head(links)>> \o MissingPdfs(fs, Tail(links))

\* ------------------------------------------------------ document numbering
\* process_pdfs, first loop: a basename gets doc_number_counter the first
\* time it is seen, and the counter is then incremented.
RECURSIVE NumberLoop(_, _, _)
NumberLoop(pdfs, unique, doc_number_counter) ==
    IF pdfs = << >> THEN unique
    ELSE LET filename == basename(Head(pdfs)[2]) IN
         IF filename \notin DOMAIN unique
         THEN NumberLoop(Tail(pdfs), unique @@ (filename :> doc_number_counter),
                         doc_number_counter + 1)
         ELSE NumberLoop(Tail(pdfs), unique, doc_number_counter)

AssignNumbers(pdfs) == NumberLoop(pdfs, << >>, 1)

\* save_links_to_xlsx, "First pass: identify unique filenames": the same
\* loop, written a second time in the source.
RECURSIVE XlsxNumberLoop(_, _, _)
XlsxNumberLoop(pdfs, unique, doc_number_counter) ==
    IF pdfs = << >> THEN unique
    ELSE LET filename == basename(Head(pdfs)[2]) IN
         IF filename \notin DOMAIN unique
         THEN XlsxNumberLoop(Tail(pdfs), unique @@ (filename :> doc_number_counter),
                             doc_number_counter + 1)
         ELSE XlsxNumberLoop(Tail(pdfs), unique, doc_number_counter)

\* The numbering pass with its counter starting at 0.
XlsxAssignNumbersFromZero(pdfs) == XlsxNumberLoop(pdfs, << >>, 0)

XlsxAssignNumbers(pdfs) == XlsxNumberLoop(pdfs, << >>, 1)

\* ------------------------------------------------------------- file names
DigitChars == <<"0", "1", "2", "3", "4", "5", "6", "7", "8", "9">>

RECURSIVE Digits(_)
Digits(n) ==
    IF n < 10 THEN <<DigitChars[n + 1]>>
    ELSE Digits(n \div 10) \o <<DigitChars[(n % 10) + 1]>>

RECURSIVE ZeroPad(_, _)
ZeroPad(s, width) == IF Len(s) >= width THEN s ELSE ZeroPad(<<"0">> \o s, width)

\* f"{doc_number:03d}"
Fmt03d(n) == ZeroPad(Digits(n), 3)

\* The label the source writes in Arabic ("Document Number"), as one token.
ArabicLabel == <<"al-mustanad raqm">>

\* f"<label> {doc_number:03d}"
NumberLabel(doc_number) == ArabicLabel \o <<" ">> \o Fmt03d(doc_number)

\* f"<label> {doc_number:03d} - {filename}"
RenamedName(doc_number, filename) ==
    NumberLabel(doc_number) \o <<" ", "-", " ">> \o filename

\* process_pdfs: new_name
NewName(renaming, doc_number, filename) ==
    IF renaming THEN RenamedName(doc_number, filename) ELSE filename

\* os.path.join(directory, name), kept as the pair of its parts.
join(directory, name) == <<directory, name>>

\* -------------------------------------------------------------- file system
WriteFile(fs, directory, name, content) ==
    [fs EXCEPT ![directory] = (name :> content) @@ @]

HasFile(fs, path) == path[2] \in DOMAIN fs[path[1]]

\* ------------------------------------------------------- create_cover_page
\* The fonts reportlab sets without any registration.
StandardFonts == { "Helvetica-Bold", "Times-Roman" }

\* formatted_number = f"{doc_number}"
formatted_number(doc_number) == Digits(doc_number)

\* arabic_text = f"<label> {formatted_number}"
arabic_text(doc_number) == ArabicLabel \o <<" ">> \o formatted_number(doc_number)

\* get_display(arabic_reshaper.reshape(arabic_text)): the label in its
\* presentation forms and visual order.
bidi_text(doc_number) == <<"reshaped", "visual">> \o arabic_text(doc_number)

\* What the canvas holds when a drawing raised: nothing.
NoDrawing == [ raised |-> TRUE, font |-> "none", size |-> 0, text |-> << >> ]

\* The entry of an item for which no cover was asked.
NoCover == [ raised |-> FALSE, font |-> "none", size |-> 0, text |-> << >> ]

\* c.setFont(font, size); c.drawCentredString(width/2, height/2, text):
\* setFont raises for a font name pdfmetrics does not know.
Draw(font, size, text, raises) ==
    IF font \notin registered_fonts \/ raises THEN NoDrawing
    ELSE [ raised |-> FALSE, font |-> font, size |-> size, text |-> text ]

\* The fallback drawing made with the font the first attempt asked for.
DrawPlainNumberInArabicFont(doc_number) ==
    Draw("Arabic", 36, formatted_number(doc_number), FALSE)

\* The fallback of both except clauses: the number alone in Helvetica-Bold.
DrawPlainNumber(doc_number) ==
    Draw("Helvetica-Bold", 36, formatted_number(doc_number), FALSE)

\* The text drawn on the cover by create_cover_page, or NoDrawing when the
\* call raises.
DrawCover(doc_number) ==
    LET first == IF ARABIC_SUPPORT
                 THEN Draw("Arabic", 24, bidi_text(doc_number),
                           doc_number \in shaping_raises)
                 ELSE Draw("Times-Roman", 24, arabic_text(doc_number),
                           doc_number \in draw_raises)
    IN IF first.raised THEN DrawPlainNumber(doc_number) ELSE first

\* ------------------------------------------------------------ process_pdfs
\* create_cover_page: the one-page cover bearing the document number.
create_cover_page(doc_number) == <<"cover", doc_number>>

\* The merge with the cover page added after the original's pages.
MergePagesCoverLast(cover, original_pages) == original_pages \o <<cover>>

\* pdf_writer: the cover page added first, then every page of the original.
MergePages(cover, original_pages) == <<cover>> \o original_pages

MergedPdf(cover, original_pages) ==
    [kind |-> "pdf", pages |-> MergePages(cover, original_pages), readable |-> TRUE]

\* How an attempt to write a destination file can end: written in full, the
\* open refused (nothing changes), or an error after the file was opened for
\* writing (a truncated file is left behind).
WriteOutcomes == { "ok", "open_fails", "write_fails" }

AfterWrite(fs, path, content, outcome) ==
    IF outcome = "ok" THEN WriteFile(fs, path[1], path[2], content)
    ELSE IF outcome = "write_fails" THEN WriteFile(fs, path[1], path[2], PartialContent)
    ELSE fs

\* shutil.copy(source_path, dest_path): SameFileError when both name one file.
AfterCopy(fs, source_path, dest_path, outcome) ==
    IF source_path = dest_path THEN fs
    ELSE AfterWrite(fs, dest_path, fs[source_path[1]][source_path[2]], outcome)

CopySucceeds(source_path, dest_path, outcome) ==
    source_path # dest_path /\ outcome = "ok"

\* The try block of one iteration: the file system afterwards.
AfterTry(fs, cover_on, doc_number, source_path, dest_path, outcome) ==
    IF cover_on
    THEN LET original == fs[source_path[1]][source_path[2]] IN
         IF DrawCover(doc_number).raised \/ ~original.readable THEN fs
         ELSE AfterWrite(fs, dest_path,
                         MergedPdf(create_cover_page(doc_number), original.pages),
                         outcome)
    ELSE AfterCopy(fs, source_path, dest_path, outcome)

\* The try block of one iteration: whether it ends without an exception.
TrySucceeds(fs, cover_on, doc_number, source_path, dest_path, outcome) ==
    IF cover_on
    THEN /\ ~DrawCover(doc_number).raised
         /\ fs[source_path[1]][source_path[2]].readable
         /\ outcome = "ok"
    ELSE CopySucceeds(source_path, dest_path, outcome)

\* ------------------------------------------------------ save_links_to_xlsx
\* str.replace("\\", "/")
ReplaceBackslash(s) == [i \in 1..Len(s) |-> IF s[i] = "\\" THEN "/" ELSE s[i]]

\* os.path.abspath(os.path.join(folder, name)) as one string; the folders of
\* the model are absolute, so abspath adds no prefix.
PathString(path) == <<path[1], "/">> \o path[2]

\* cell.hyperlink = f"file:///{local_path.replace('\\', '/')}"
FileLink(path) == <<"file:///">> \o ReplaceBackslash(PathString(path))

UrlsOf(pdfs) == { pdfs[k][2] : k \in DOMAIN pdfs }

\* existing_dict.get(url, missing_dict.get(url, "Unknown"))
StatusOf(url, existing, missing) ==
    IF url \in UrlsOf(existing) THEN "Found"
    ELSE IF url \in UrlsOf(missing) THEN "Missing"
    ELSE "Unknown"

\* The number cell with one number per target instead of per basename.
DocNumberCellByUrl(url, existing, unique) ==
    IF url \in UrlsOf(existing)
    THEN NumberLabel(CHOOSE k \in DOMAIN existing :
                        /\ existing[k][2] = url
                        /\ \A j \in 1..(k - 1) : existing[j][2] # url)
    ELSE << >>

\* doc_number_dict.get(url, "")
DocNumberCell(url, existing, unique) ==
    IF url \in UrlsOf(existing) THEN NumberLabel(unique[basename(url)]) ELSE << >>

\* renamed_files.get(url, filename): renamed_files holds, for every url of
\* existing_pdfs, the renamed file name.
LinkedName(url, existing, unique) ==
    IF url \in UrlsOf(existing)
    THEN RenamedName(unique[basename(url)], basename(url))
    ELSE basename(url)

\* One appended row: link text, file name, document number, status, and the
\* hyperlink set on the second cell (empty when none is set).
SheetRow(link, existing, missing, unique, folder) ==
    LET url    == link[2]
        status == StatusOf(url, existing, missing)
    IN [ link_text  |-> link[1],
         filename   |-> basename(url),
         doc_number |-> DocNumberCell(url, existing, unique),
         status     |-> status,
         hyperlink  |-> IF status = "Found"
                        THEN FileLink(join(folder, LinkedName(url, existing, unique)))
                        ELSE << >> ]

\* The loop with rows for the resolved links only.
RECURSIVE SheetRowsFoundOnly(_, _, _, _, _)
SheetRowsFoundOnly(all_hyperlinks, existing, missing, unique, folder) ==
    IF all_hyperlinks = << >> THEN << >>
    ELSE IF StatusOf(Head(all_hyperlinks)[2], existing, missing) = "Found"
         THEN <<SheetRow(Head(all_hyperlinks), existing, missing, unique, folder)>>
              \o SheetRowsFoundOnly(Tail(all_hyperlinks), existing, missing, unique,
                                    folder)
         ELSE SheetRowsFoundOnly(Tail(all_hyperlinks), existing, missing, unique,
                                 folder)

\* The loop "Add all links with status and document number".
RECURSIVE SheetRows(_, _, _, _, _)
SheetRows(all_hyperlinks, existing, missing, unique, folder) ==
    IF all_hyperlinks = << >> THEN << >>
    ELSE <<SheetRow(Head(all_hyperlinks), existing, missing, unique, folder)>>
         \o SheetRows(Tail(all_hyperlinks), existing, missing, unique, folder)

\* ----------------------------------------------------------- initial state
\* An installation with the shaping packages and an "Arabic" font registered
\* by register_arabic_fonts, where no drawing raises.
FullRendering ==
    /\ ARABIC_SUPPORT = TRUE
    /\ registered_fonts = StandardFonts \cup { "Arabic" }
    /\ shaping_raises = { }
    /\ draw_raises = { }

NoRun ==
    /\ pc = "start"
    /\ hyperlinks = << >>
    /\ existing_pdfs = << >>
    /\ missing_pdfs = << >>
    /\ unique_filenames = << >>
    /\ processed_count = 0
    /\ written = << >>
    /\ threads = << >>
    /\ xlsx_unique_filenames = << >>
    /\ sheet1 = << >>
    /\ faults = 0

\* The destination folder, what is at its path, and the folder of the input
\* document: the destination is the central folder itself, another existing
\* folder (which may hold the input document), or a path where nothing
\* exists yet.
DestinationChoices ==
    { <<CentralDir, "dir", HomeDir>>, <<DestDir, "dir", HomeDir>>,
      <<DestDir, "dir", DestDir>>, <<DestDir, "absent", HomeDir>> }

\* Some element of the document targets a file of this name. The central
\* folder is given the files the document can refer to; a file no hyperlink
\* names is never looked at. Likewise an unreadable PDF is given only to runs
\* with the cover-page option on: no other run opens a PDF with PyPDF2.
Referenced(d, name) == \E k \in DOMAIN d : basename(Url(d[k])) = name

\* A run with the three paths selected and a document that loads.
InitRun ==
    /\ paths_selected = TRUE
    /\ doc_loads = TRUE
    /\ doc \in SeqsUpTo(DocElements, MaxLinks)
    /\ enable_renaming \in BOOLEAN
    /\ add_cover_page \in BOOLEAN
    /\ \E d \in DestinationChoices :
          /\ destination_folder = d[1]
          /\ dest_kind = d[2]
          /\ word_file_dir = d[3]
    /\ \E a \in CentralChoices("a", 2), b \in PresentOrNot("b", 1) :
          /\ Referenced(doc, Str_a_pdf) \/ a = NoFile
          /\ Referenced(doc, Str_b_pdf) \/ b = NoFile
          /\ add_cover_page \/ a = NoFile \/ a.readable
          /\ files = [ central |-> DirOf(a, b), dest |-> << >> ]
    /\ FullRendering
    /\ NoRun

\* A run whose document cannot be opened, and one with a path left empty:
\* nothing else is read in either.
InitNoRun ==
    /\ paths_selected \in BOOLEAN
    /\ doc_loads = FALSE
    /\ doc = << >>
    /\ enable_renaming = TRUE
    /\ add_cover_page = TRUE
    /\ destination_folder = DestDir
    /\ dest_kind = "dir"
    /\ word_file_dir = HomeDir
    /\ files = [ central |-> << >>, dest |-> << >> ]
    /\ FullRendering
    /\ NoRun

Init == InitRun \/ InitNoRun

\* ----------------------------------------------------------------- actions
run_vars == << hyperlinks, existing_pdfs, missing_pdfs, unique_filenames,
               processed_count, written, threads, xlsx_unique_filenames, sheet1,
               faults >>

\* process_word_file up to docx.Document: the two early returns.
LoadDocument ==
    /\ pc = "start"
    /\ pc' = IF ~paths_selected THEN "no_paths"
             ELSE IF ~doc_loads THEN "load_failed"
             ELSE "extract"
    /\ UNCHANGED << inputs, dest_kind, files, run_vars >>

\* hyperlinks = self.extract_hyperlinks(doc); return when there are none.
ExtractHyperlinks ==
    /\ pc = "extract"
    /\ hyperlinks' = extract_hyperlinks(doc)
    /\ pc' = IF hyperlinks' = << >> THEN "no_links" ELSE "reconcile"
    /\ UNCHANGED << inputs, dest_kind, files, existing_pdfs, missing_pdfs,
                    unique_filenames, processed_count, written, threads,
                    xlsx_unique_filenames, sheet1, faults >>

\* "Check which PDFs exist".
Reconcile ==
    /\ pc = "reconcile"
    /\ existing_pdfs' = ExistingPdfs(files, hyperlinks)
    /\ missing_pdfs' = MissingPdfs(files, hyperlinks)
    /\ pc' = IF missing_pdfs' # << >> THEN "ask" ELSE "dispatch"
    /\ UNCHANGED << inputs, dest_kind, files, hyperlinks, unique_filenames,
                    processed_count, written, threads, xlsx_unique_filenames,
                    sheet1, faults >>

\* messagebox.askyesno("Missing PDFs", ...): the operator's answer.
AskContinue ==
    /\ pc = "ask"
    /\ \E result \in BOOLEAN : pc' = IF result THEN "dispatch" ELSE "cancelled"
    /\ UNCHANGED << inputs, dest_kind, files, run_vars >>

\* self.process_pdfs(...): makedirs and the numbering loop.
StartProcessPdfs ==
    /\ pc = "dispatch"
    /\ existing_pdfs # << >>
    /\ enable_renaming \/ add_cover_page
    /\ dest_kind' = "dir"
    /\ unique_filenames' = AssignNumbers(existing_pdfs)
    /\ processed_count' = 0
    /\ pc' = "process_pdfs"
    /\ UNCHANGED << inputs, files, hyperlinks, existing_pdfs, missing_pdfs,
                    written, threads, xlsx_unique_filenames, sheet1, faults >>

\* What lies at a path: the file's content, or NoFile.
ContentAt(fs, path) == IF HasFile(fs, path) THEN fs[path[1]][path[2]] ELSE NoFile

\* The loop without the inner try/except: a failed fallback copy raises out
\* of process_pdfs.
PcAfterItemRaising(k, total_files, outcome) ==
    IF outcome = "failed" THEN "crashed_process_pdfs"
    ELSE IF k = total_files THEN "copy_word" ELSE "process_pdfs"

\* Where process_pdfs stands after iteration k, whatever its outcome: the
\* except clauses swallow every exception, so the loop goes on to the next
\* item and returns after the last.
PcAfterItem(k, total_files, outcome) ==
    IF k = total_files THEN "copy_word" ELSE "process_pdfs"

\* The number of failed file operations among those the environment decides.
Failed(decided, outcome) == IF decided /\ outcome # "ok" THEN 1 ELSE 0

\* One iteration of the loop of process_pdfs over existing_pdfs: the try
\* block and, when it raises, the fallback copy, whose own exception is
\* swallowed. An outcome the iteration never consults is fixed to "ok".
ProcessPdfItem ==
    /\ pc = "process_pdfs"
    /\ processed_count < Len(existing_pdfs)
    /\ LET k           == processed_count + 1
           pdf_filename == existing_pdfs[k][2]
           filename    == basename(pdf_filename)
           doc_number  == unique_filenames[filename]
           source_path == join(CentralDir, filename)
           new_name    == NewName(enable_renaming, doc_number, filename)
           dest_path   == join(destination_folder, new_name)
           original    == files[CentralDir][filename]
           try_writes  == IF add_cover_page
                          THEN ~DrawCover(doc_number).raised /\ original.readable
                          ELSE source_path # dest_path
       IN \E try_outcome \in WriteOutcomes, fallback_outcome \in WriteOutcomes :
            LET tried   == AfterTry(files, add_cover_page, doc_number,
                                    source_path, dest_path, try_outcome)
                try_ok  == TrySucceeds(files, add_cover_page, doc_number,
                                       source_path, dest_path, try_outcome)
                fallback_writes == ~try_ok /\ source_path # dest_path
                final   == IF try_ok THEN tried
                           ELSE AfterCopy(tried, source_path, dest_path,
                                          fallback_outcome)
                outcome == IF try_ok
                           THEN (IF add_cover_page THEN "cover" ELSE "copy")
                           ELSE IF CopySucceeds(source_path, dest_path,
                                                fallback_outcome)
                                THEN "fallback" ELSE "failed"
            IN /\ ~try_writes => try_outcome = "ok"
               /\ ~fallback_writes => fallback_outcome = "ok"
               /\ faults' = faults + Failed(try_writes, try_outcome)
                                   + Failed(fallback_writes, fallback_outcome)
               /\ faults' <= MaxFaults
               /\ files' = final
               /\ written' = (k :> [ url     |-> pdf_filename,
                                     path    |-> dest_path,
                                     source  |-> original,
                                     content |-> ContentAt(final, dest_path),
                                     cover   |-> IF add_cover_page
                                                 THEN DrawCover(doc_number)
                                                 ELSE NoCover,
                                     outcome |-> outcome ]) @@ written
               /\ processed_count' = k
               /\ pc' = PcAfterItem(k, Len(existing_pdfs), outcome)
    /\ UNCHANGED << inputs, dest_kind, hyperlinks, existing_pdfs, missing_pdfs,
                    unique_filenames, threads, xlsx_unique_filenames, sheet1 >>

\* The else branch of "if existing_pdfs": nothing is copied, and nothing
\* creates the destination folder.
NoPdfsToProcess ==
    /\ pc = "dispatch"
    /\ existing_pdfs = << >>
    /\ pc' = "copy_word"
    /\ UNCHANGED << inputs, dest_kind, files, run_vars >>

\* copy_file's shutil.copy(source, destination): the file lands under the
\* source's basename in the destination folder.
CopyTarget(source_path, folder) == join(folder, source_path[2])

\* The thread copy_files_parallel creates for one item; an item whose path
\* does not exist gets no thread.
ThreadFor(fs, pdf_filename, folder) ==
    LET pdf_path == join(CentralDir, basename(pdf_filename)) IN
    [ source |-> pdf_path,
      dest   |-> CopyTarget(pdf_path, folder),
      state  |-> IF HasFile(fs, pdf_path) THEN "started" ELSE "skipped" ]

\* self.copy_files_parallel(...): makedirs, then one started thread per item.
StartCopyFilesParallel ==
    /\ pc = "dispatch"
    /\ existing_pdfs # << >>
    /\ ~(enable_renaming \/ add_cover_page)
    /\ dest_kind' = "dir"
    /\ threads' = [ k \in DOMAIN existing_pdfs |->
                      ThreadFor(files, existing_pdfs[k][2], destination_folder) ]
    /\ pc' = "copy_files_parallel"
    /\ UNCHANGED << inputs, files, hyperlinks, existing_pdfs, missing_pdfs,
                    unique_filenames, processed_count, written,
                    xlsx_unique_filenames, sheet1, faults >>

LogCopy(k, thread, source, content, outcome) ==
    (k :> [ url     |-> existing_pdfs[k][2],
            path    |-> thread.dest,
            source  |-> source,
            content |-> content,
            cover   |-> NoCover,
            outcome |-> outcome ]) @@ written

\* A copy thread opens its destination for writing (the file is truncated),
\* unless shutil.copy raises SameFileError first; copy_file catches and logs
\* the exception.
CopyFileOpen(k) ==
    /\ pc = "copy_files_parallel"
    /\ threads[k].state = "started"
    /\ LET t == threads[k] IN
       IF t.source = t.dest
       THEN /\ threads' = [threads EXCEPT ![k].state = "done"]
            /\ written' = LogCopy(k, t, files[t.source[1]][t.source[2]],
                                  ContentAt(files, t.dest), "failed")
            /\ files' = files
       ELSE /\ threads' = [threads EXCEPT ![k].state = "writing"]
            /\ files' = WriteFile(files, t.dest[1], t.dest[2], PartialContent)
            /\ written' = written
    /\ UNCHANGED << pc, inputs, dest_kind, hyperlinks, existing_pdfs, missing_pdfs,
                    unique_filenames, processed_count, xlsx_unique_filenames,
                    sheet1, faults >>

\* The copy thread writes the source's bytes, closes the file and ends.
CopyFileFinish(k) ==
    /\ pc = "copy_files_parallel"
    /\ threads[k].state = "writing"
    /\ LET t      == threads[k]
           source == files[t.source[1]][t.source[2]]
       IN /\ files' = WriteFile(files, t.dest[1], t.dest[2], source)
          /\ written' = LogCopy(k, t, source, source, "copy")
    /\ threads' = [threads EXCEPT ![k].state = "done"]
    /\ UNCHANGED << pc, inputs, dest_kind, hyperlinks, existing_pdfs, missing_pdfs,
                    unique_filenames, processed_count, xlsx_unique_filenames,
                    sheet1, faults >>

\* copy_files_parallel returning right after the threads were started,
\* without the loop of joins.
JoinThreadsWithoutWaiting ==
    /\ pc = "copy_files_parallel"
    /\ pc' = "copy_word"
    /\ UNCHANGED << inputs, dest_kind, files, run_vars >>

\* for thread in threads: thread.join()
JoinThreads ==
    /\ pc = "copy_files_parallel"
    /\ \A k \in DOMAIN threads : threads[k].state \in { "done", "skipped" }
    /\ pc' = "copy_word"
    /\ UNCHANGED << inputs, dest_kind, files, run_vars >>

\* self.copy_word_file(word_file_path, destination_folder): shutil.copy with
\* no handler around it. Into an existing folder it raises SameFileError when
\* the document already lies there; when nothing exists at the destination
\* path the document is written as a regular file of that name (or the copy
\* raises, when the parent folder is absent too).
CopyWordFile ==
    /\ pc = "copy_word"
    /\ IF dest_kind = "dir"
       THEN IF word_file_dir = destination_folder
            THEN /\ pc' = "crashed_copy_word"
                 /\ UNCHANGED << files, dest_kind >>
            ELSE /\ files' = WriteFile(files, destination_folder, WordName, WordContent)
                 /\ pc' = "save_xlsx"
                 /\ UNCHANGED dest_kind
       ELSE \E parent_exists \in BOOLEAN :
              /\ dest_kind' = IF parent_exists THEN "file" ELSE dest_kind
              /\ pc' = IF parent_exists THEN "save_xlsx" ELSE "crashed_copy_word"
              /\ UNCHANGED files
    /\ UNCHANGED << inputs, run_vars >>

\* self.save_links_to_xlsx(...): the numbering pass, the rows, and
\* workbook.save(xlsx_file_path), which raises unless the folder exists.
SaveLinksToXlsx ==
    /\ pc = "save_xlsx"
    /\ xlsx_unique_filenames' = XlsxAssignNumbers(existing_pdfs)
    /\ sheet1' = SheetRows(hyperlinks, existing_pdfs, missing_pdfs,
                           xlsx_unique_filenames', destination_folder)
    /\ IF dest_kind = "dir"
       THEN /\ files' = WriteFile(files, destination_folder, XlsxName, XlsxContent)
            /\ pc' = "done"
       ELSE /\ files' = files
            /\ pc' = "crashed_save_xlsx"
    /\ UNCHANGED << inputs, dest_kind, hyperlinks, existing_pdfs, missing_pdfs,
                    unique_filenames, processed_count, written, threads,
                    faults >>

Next ==
    \/ LoadDocument
    \/ ExtractHyperlinks
    \/ Reconcile
    \/ AskContinue
    \/ StartProcessPdfs
    \/ ProcessPdfItem
    \/ NoPdfsToProcess
    \/ StartCopyFilesParallel
    \/ \E k \in DOMAIN threads : CopyFileOpen(k)
    \/ \E k \in DOMAIN threads : CopyFileFinish(k)
    \/ JoinThreads
    \/ CopyWordFile
    \/ SaveLinksToXlsx

Spec == Init /\ [][Next]_vars

\* ------------------------------------------- extract_hyperlinks on its own
\* extract_links_from_word: the document is loaded and extract_hyperlinks is
\* applied to it; nothing else runs. The documents are drawn from a wider
\* set of elements: targets in upper case, with a trailing separator, with
\* surrounding blanks, percent-encoded, with "." and ".." components, targets
\* that are no PDF, an element without text and elements without a
\* resolvable relationship.
RawTargets ==
    { Str_a_pdf, Str_d_a_pdf, Str_n_doc, Str_b_PDF, Str_a_pdf_sl, Str_sp_a_pdf,
      Str_a_2Epdf, Str_a_pdf_20, Str_dot_a_pdf, Str_d_up_b_pdf, Str_pdf,
      Str_a_pdfx }

RawElements ==
    { Element("T", "ok", t) : t \in RawTargets }
    \cup { Element("", "ok", Str_a_pdf),
           Element("T", "none", Str_a_pdf),
           Element("T", "dangling", Str_a_pdf) }

InitExtract ==
    /\ paths_selected = TRUE
    /\ doc_loads = TRUE
    /\ doc \in SeqsUpTo(RawElements, MaxLinks)
    /\ enable_renaming = TRUE
    /\ add_cover_page = TRUE
    /\ destination_folder = DestDir
    /\ dest_kind = "dir"
    /\ word_file_dir = HomeDir
    /\ files = [ central |-> << >>, dest |-> << >> ]
    /\ FullRendering
    /\ NoRun

\* self.current_hyperlinks = self.extract_hyperlinks(doc)
ExtractLinksFromWord ==
    /\ pc = "start"
    /\ hyperlinks' = extract_hyperlinks(doc)
    /\ pc' = "extracted"
    /\ UNCHANGED << inputs, dest_kind, files, existing_pdfs, missing_pdfs,
                    unique_filenames, processed_count, written, threads,
                    xlsx_unique_filenames, sheet1, faults >>

NextExtract == ExtractLinksFromWord

SpecExtract == InitExtract /\ [][NextExtract]_vars

\* ------------------------------------------------- runs with a cover page
\* The document numbers process_pdfs can hand to create_cover_page: one per
\* basename the documents refer to.
DocNumbers == 1..Cardinality({ basename(Url(e)) : e \in DocElements })

\* Runs of process_word_file with the cover-page option on, every referenced
\* PDF present and readable and the destination another, existing folder, in
\* every installation: with or without the shaping packages (line 41-46),
\* with or without a registered "Arabic" font (register_arabic_fonts), and
\* with the drawing of the label raising for any of the document numbers.
InitCover ==
    /\ paths_selected = TRUE
    /\ doc_loads = TRUE
    /\ doc \in SeqsUpTo(DocElements, MaxCoverLinks)
    /\ enable_renaming \in BOOLEAN
    /\ add_cover_page = TRUE
    /\ destination_folder = DestDir
    /\ dest_kind = "dir"
    /\ word_file_dir = HomeDir
    /\ files = [ central |-> DirOf(SourcePdf("a", 2, TRUE), SourcePdf("b", 1, TRUE)),
                 dest |-> << >> ]
    /\ ARABIC_SUPPORT \in BOOLEAN
    /\ registered_fonts \in { StandardFonts, StandardFonts \cup { "Arabic" } }
    /\ shaping_raises \in SUBSET DocNumbers
    /\ draw_raises \in SUBSET DocNumbers
    /\ ARABIC_SUPPORT => draw_raises = { }
    /\ ~ARABIC_SUPPORT => shaping_raises = { }
    /\ NoRun

\* process_word_file up to the return of process_pdfs.
NextCover ==
    \/ LoadDocument
    \/ ExtractHyperlinks
    \/ Reconcile
    \/ StartProcessPdfs
    \/ ProcessPdfItem

SpecCover == InitCover /\ [][NextCover]_vars

\* ------------------------------------------------------------- properties
InSeq(x, sq) == \E k \in DOMAIN sq : sq[k] = x

Basenames(pdfs) == { basename(pdfs[k][2]) : k \in DOMAIN pdfs }

\* The position at which a basename first occurs in a sequence of links.
FirstIndex(pdfs, name) ==
    CHOOSE k \in DOMAIN pdfs :
        /\ basename(pdfs[k][2]) = name
        /\ \A j \in 1..(k - 1) : basename(pdfs[j][2]) # name

\* m numbers the distinct basenames of pdfs 1..k in order of first appearance.
IsFirstEncounterNumbering(m, pdfs) ==
    /\ DOMAIN m = Basenames(pdfs)
    /\ { m[n] : n \in DOMAIN m } = 1..Cardinality(Basenames(pdfs))
    /\ \A n1, n2 \in DOMAIN m :
          FirstIndex(pdfs, n1) < FirstIndex(pdfs, n2) => m[n1] < m[n2]

\* The number a basename carries under first-encounter numbering of the
\* resolved links: one more than the number of distinct basenames that first
\* occur before it.
FirstIndexNumber(name) ==
    1 + Cardinality({ n \in Basenames(existing_pdfs) :
                        FirstIndex(existing_pdfs, n) < FirstIndex(existing_pdfs, name) })

\* process_pdfs has been entered (it is entered only with a non-empty
\* existing_pdfs, so its numbering is then non-empty).
ProcessPdfsRan == unique_filenames # << >>

\* save_links_to_xlsx has built its rows.
RowsBuilt == pc \in { "done", "crashed_save_xlsx" }

\* C1: for every renaming and cover-page option and every Found hyperlink,
\* the file link of the hyperlink's report row names exactly the destination
\* path that process_pdfs or copy_files_parallel wrote for that hyperlink in
\* the same run.
ReportLinksNameWrittenFiles ==
    pc = "done" =>
        \A j \in DOMAIN sheet1, k \in DOMAIN written :
            ( /\ sheet1[j].status = "Found"
              /\ written[k].url = hyperlinks[j][2]
              /\ written[k].outcome # "failed" )
            => sheet1[j].hyperlink = FileLink(written[k].path)

\* C2: the basename-to-number mapping built in process_pdfs and the one built
\* in save_links_to_xlsx are identical, and both are the first-encounter
\* numbering: the k distinct basenames get exactly 1..k in order of first
\* appearance, links with the same basename share a number and different
\* basenames never share one.
NumberingsAgree ==
    /\ pc = "process_pdfs"
         => IsFirstEncounterNumbering(unique_filenames, existing_pdfs)
    /\ RowsBuilt =>
         /\ IsFirstEncounterNumbering(xlsx_unique_filenames, existing_pdfs)
         /\ ProcessPdfsRan => unique_filenames = xlsx_unique_filenames
         /\ \A i, j \in DOMAIN existing_pdfs :
              LET ni == basename(existing_pdfs[i][2])
                  nj == basename(existing_pdfs[j][2])
              IN (ni = nj) <=> (xlsx_unique_filenames[ni] = xlsx_unique_filenames[nj])

\* C2 witness: both numberings were built for three resolved links, two of
\* them different targets with one basename, over two distinct basenames.
NumberingsAgreeWitness ==
    /\ pc = "done"
    /\ ProcessPdfsRan
    /\ Len(existing_pdfs) = 3
    /\ Cardinality(Basenames(existing_pdfs)) = 2
    /\ Cardinality(UrlsOf(existing_pdfs)) = 3
    /\ basename(existing_pdfs[1][2]) = Str_b_pdf

\* C3: the report written by save_links_to_xlsx has exactly one data row per
\* extracted hyperlink, in the original order, duplicates and unresolved
\* links included.
ReportHasOneRowPerHyperlink ==
    pc = "done" =>
        /\ Len(sheet1) = Len(hyperlinks)
        /\ \A j \in DOMAIN hyperlinks :
              /\ sheet1[j].link_text = hyperlinks[j][1]
              /\ sheet1[j].filename = basename(hyperlinks[j][2])

\* C3 witness: a written report for three hyperlinks, one of them a
\* duplicate of another and one unresolved.
ReportHasOneRowPerHyperlinkWitness ==
    /\ pc = "done"
    /\ Len(hyperlinks) = 3
    /\ Len(sheet1) = 3
    /\ missing_pdfs # << >>
    /\ \E i, j \in DOMAIN hyperlinks : i # j /\ hyperlinks[i] = hyperlinks[j]

\* C4: in every report row the status is Found exactly when the hyperlink is
\* in the resolved partition and Missing exactly when it is in the unresolved
\* one, and no other status occurs; the document-number cell is empty in a
\* Missing row and holds the number of the row's basename in a Found row, so
\* rows with one basename show one number.
ReportStatusAndNumbers ==
    pc = "done" =>
        /\ \A j \in DOMAIN sheet1 :
              LET row == sheet1[j] IN
              /\ row.status \in { "Found", "Missing" }
              /\ row.status = "Found" <=> InSeq(hyperlinks[j], existing_pdfs)
              /\ row.status = "Missing" <=> InSeq(hyperlinks[j], missing_pdfs)
              /\ row.status = "Missing" => row.doc_number = << >>
              /\ row.status = "Found" =>
                    row.doc_number = ArabicLabel \o <<" ">>
                        \o Fmt03d(FirstIndexNumber(row.filename))
        /\ \A i, j \in DOMAIN sheet1 :
              sheet1[i].filename = sheet1[j].filename
              => sheet1[i].doc_number = sheet1[j].doc_number

\* C4 witness: a written report with a Missing row and two Found rows of
\* different targets that share a basename and a non-empty number.
ReportStatusAndNumbersWitness ==
    /\ pc = "done"
    /\ \E i, j, m \in DOMAIN sheet1 :
          /\ sheet1[m].status = "Missing"
          /\ sheet1[i].status = "Found"
          /\ sheet1[j].status = "Found"
          /\ hyperlinks[i][2] # hyperlinks[j][2]
          /\ sheet1[i].filename = sheet1[j].filename
          /\ sheet1[i].doc_number # << >>
          /\ sheet1[i].doc_number = sheet1[j].doc_number

\* The states in which reconciliation has just ended and nothing has been
\* written yet.
JustReconciled == pc \in { "ask", "dispatch" }

\* C5: reconciliation splits the hyperlinks into a resolved and an unresolved
\* sequence that together hold every entry exactly once, each in the input's
\* relative order, an entry being resolved exactly when the basename of its
\* target exists directly in the source directory.
ReconciliationPartitions ==
    JustReconciled =>
        LET present(link) == \E name \in DOMAIN files[CentralDir] :
                                 /\ endswith(link[2], name)
                                 /\ \A i \in 1..Len(name) : name[i] # "/"
                                 /\ Len(link[2]) > Len(name)
                                    => link[2][Len(link[2]) - Len(name)] = "/"
            absent(link) == ~present(link)
        IN /\ existing_pdfs = SelectSeq(hyperlinks, present)
           /\ missing_pdfs = SelectSeq(hyperlinks, absent)
           /\ Len(existing_pdfs) + Len(missing_pdfs) = Len(hyperlinks)

\* C5 witness: three hyperlinks were split into two resolved ones, one of
\* them with a directory part in its target, and an unresolved one between
\* them.
ReconciliationPartitionsWitness ==
    /\ pc = "ask"
    /\ Len(hyperlinks) = 3
    /\ Len(existing_pdfs) = 2
    /\ Len(missing_pdfs) = 1
    /\ missing_pdfs[1] = hyperlinks[2]
    /\ existing_pdfs[2][2] = Str_d_a_pdf

\* A string ends in ".pdf" written in any mix of cases.
EndsInPdfAnyCase(u) ==
    /\ Len(u) >= 4
    /\ u[Len(u) - 3] = "."
    /\ u[Len(u) - 2] \in { "p", "P" }
    /\ u[Len(u) - 1] \in { "d", "D" }
    /\ u[Len(u)] \in { "f", "F" }

\* The entries extract_hyperlinks returns for the elements that pass a test.
RECURSIVE EntriesOf(_)
EntriesOf(elements) ==
    IF elements = << >> THEN << >>
    ELSE << <<LinkText(Head(elements)), Url(Head(elements))>> >>
         \o EntriesOf(Tail(elements))

\* C6 as stated: extract_hyperlinks returns exactly the hyperlinks whose
\* decoded target ends in ".pdf" case-insensitively, in document order with
\* duplicates retained, and nothing when none matches.
ExtractKeepsDecodedPdfTargets ==
    pc = "extracted" =>
        LET decoded_is_pdf(e) == e.rel = "ok" /\ EndsInPdfAnyCase(unquote(e.target))
        IN hyperlinks = EntriesOf(SelectSeq(doc, decoded_is_pdf))

\* C6 amended: extract_hyperlinks returns exactly the hyperlinks with a
\* resolvable relationship whose target, after surrounding whitespace is
\* stripped, percent escapes are decoded and the path is normalised, ends in
\* ".pdf" case-insensitively, in document order with duplicates retained.
ExtractKeepsNormalisedPdfTargets ==
    pc = "extracted" =>
        LET normalised_is_pdf(e) ==
                e.rel = "ok" /\ EndsInPdfAnyCase(normpath(unquote(strip(e.target))))
        IN hyperlinks = EntriesOf(SelectSeq(doc, normalised_is_pdf))

\* C6 witness: of three elements the two with the upper-case target "b.PDF"
\* were kept, in order and both, and the third was dropped.
ExtractKeepsNormalisedPdfTargetsWitness ==
    /\ pc = "extracted"
    /\ Len(doc) = 3
    /\ doc[1].target = Str_b_PDF
    /\ doc[2].target = Str_n_doc
    /\ Len(hyperlinks) = 2
    /\ hyperlinks[1] = hyperlinks[2]
    /\ hyperlinks[1][2] = Str_b_PDF

\* C7: in process_pdfs a failure while transforming or writing one item never
\* aborts the batch: the verbatim copy is attempted for it, and whether or
\* not that copy succeeds every later item is processed; an item whose source
\* the PDF library cannot read ends as an untransformed copy.
BatchNeverAborts ==
    ProcessPdfsRan =>
        /\ pc # "process_pdfs" =>
              /\ processed_count = Len(existing_pdfs)
              /\ DOMAIN written = 1..Len(existing_pdfs)
        /\ pc = "process_pdfs" => DOMAIN written = 1..processed_count
        /\ \A k \in DOMAIN written :
              LET w == written[k] IN
              /\ w.outcome \in { "cover", "copy", "fallback", "failed" }
              /\ (add_cover_page /\ ~w.source.readable)
                 => w.outcome \in { "fallback", "failed" }
              /\ w.outcome = "fallback" => w.content = w.source

\* C7 witness: the source of one item was unreadable and its fallback copy
\* failed too, and the next item was still processed and got its cover page.
BatchNeverAbortsWitness ==
    /\ pc = "done"
    /\ ProcessPdfsRan
    /\ \E k \in DOMAIN written :
          /\ k + 1 \in DOMAIN written
          /\ ~written[k].source.readable
          /\ written[k].outcome = "failed"
          /\ written[k + 1].outcome = "cover"

\* The positions at which process_word_file has stopped short of its
\* completion message.
Halted ==
    pc \in { "no_paths", "load_failed", "no_links", "cancelled",
             "crashed_copy_word", "crashed_save_xlsx" }

\* C8: once the paths are selected and hyperlinks were found, the pipeline is
\* halted only by a document that cannot be opened or by the operator
\* declining to continue; any other failure degrades one item and the run
\* proceeds through copying the input document and writing the report to the
\* completion message.
HaltsOnlyOnLoadFailureOrDecline ==
    Halted => pc \in { "no_paths", "no_links", "load_failed", "cancelled" }

\* C9: in every run that gets past reconciliation, also when no referenced
\* PDF exists, the destination directory exists before the input document is
\* copied into it and the report is written into it.
DestinationCreatedBeforeCopy ==
    pc \in { "copy_word", "save_xlsx", "done" } => dest_kind = "dir"

\* The file an iteration of process_pdfs left is the cover followed by the
\* pages of the source as it read them.
IsCoverPlusSource(w) ==
    /\ Len(w.content.pages) = Len(w.source.pages) + 1
    /\ w.content.pages[1][1] = "cover"
    /\ \A i \in 1..Len(w.source.pages) : w.content.pages[i + 1] = w.source.pages[i]

\* C10 as stated: whenever the cover-page option is enabled, the file
\* process_pdfs writes for a resolved item has the source's page count plus
\* one, the cover at index 0 and then the source pages in their order.
CoverOutputIsSourcePlusOne ==
    (ProcessPdfsRan /\ add_cover_page) =>
        \A k \in DOMAIN written :
            written[k].outcome # "failed" => IsCoverPlusSource(written[k])

\* C10 amended: whenever the cover-page option is enabled and the
\* transformation of an item raises no exception, the file written for it
\* has the source's page count plus one, the cover at index 0 and then the
\* source pages in their order; when it raises and the fallback copy
\* succeeds, the file is the source, without a cover.
CoverOutputWhenTransformed ==
    (ProcessPdfsRan /\ add_cover_page) =>
        \A k \in DOMAIN written :
            /\ written[k].outcome = "cover" =>
                  /\ IsCoverPlusSource(written[k])
                  /\ written[k].content.pages[1]
                       = <<"cover", FirstIndexNumber(basename(written[k].url))>>
            /\ written[k].outcome = "fallback" =>
                  /\ written[k].content = written[k].source
                  /\ Len(written[k].content.pages) = Len(written[k].source.pages)
            /\ written[k].outcome \in { "cover", "fallback", "failed" }

\* C10 witness: with the cover-page option on, a two-page source was written
\* as three pages.
CoverOutputWhenTransformedWitness ==
    /\ ProcessPdfsRan
    /\ add_cover_page
    /\ \E k \in DOMAIN written :
          /\ written[k].outcome = "cover"
          /\ Len(written[k].source.pages) = 2
          /\ Len(written[k].content.pages) = 3

\* ------------------------------------------------------------------- C11
\* A copy thread that was started and has not ended yet.
Running(k) == threads[k].state \in { "started", "writing" }

\* process_word_file is past the dispatch of lines 302-308.
PastDispatch ==
    pc \in { "copy_word", "save_xlsx", "done", "crashed_copy_word",
             "crashed_save_xlsx" }

\* C11: in the copy-only path copy_files_parallel returns only after every
\* copy thread it started has finished: while the input document is copied
\* and the report is written, and ever after, no fan-out copy is running, and
\* every step that writes the document or the report is taken with all the
\* threads ended.
FanoutJoinedBeforeWordCopy ==
    /\ PastDispatch => \A k \in DOMAIN threads : ~Running(k)
    /\ (HasFile(files, join(destination_folder, WordName))
        \/ HasFile(files, join(destination_folder, XlsxName))
        \/ sheet1 # << >>)
       => \A k \in DOMAIN threads : ~Running(k)

\* C11 witness: two copy threads were started, both have ended with their
\* files copied, and the input document is about to be copied.
FanoutJoinedBeforeWordCopyWitness ==
    /\ pc = "copy_word"
    /\ Len(threads) >= 2
    /\ \A k \in DOMAIN threads : threads[k].state = "done"
    /\ \A k \in DOMAIN threads : k \in DOMAIN written /\ written[k].outcome = "copy"

\* ------------------------------------------------------------------- C12
\* C12: for every run, with any choice of options and of source and
\* destination directories, every step of process_pdfs leaves the files of
\* every directory other than the destination as they were, and leaves the
\* source (central) directory as it was: no file of it is created, modified
\* or deleted.
ProcessPdfsWritesOnlyDestination ==
    [][ pc = "process_pdfs" =>
          /\ \A d \in DOMAIN files :
                d # destination_folder => files'[d] = files[d]
          /\ files'[CentralDir] = files[CentralDir] ]_vars

\* ------------------------------------------------------------------- C13
\* Two different copy threads of the fan-out, both started.
TwoTasks(j, k) ==
    /\ j # k
    /\ threads[j].state # "skipped"
    /\ threads[k].state # "skipped"

\* The file of a thread that has ended with its copy made is the source.
CopyIntact(k) ==
    (threads[k].state = "done" /\ k \in DOMAIN written
        /\ written[k].outcome = "copy")
    => ContentAt(files, threads[k].dest) = written[k].source

\* C13: in the copy-only fan-out, for every resolved sequence (also one that
\* names the same basename more than once), every copy task writes a
\* destination path different from every other task's, no two tasks are
\* writing the same destination file at the same time, and the file a task has
\* finished copying is not damaged by another task.
FanoutTasksWriteDistinctPaths ==
    pc = "copy_files_parallel" =>
        /\ \A j, k \in DOMAIN threads :
              TwoTasks(j, k) => threads[j].dest # threads[k].dest
        /\ \A j, k \in DOMAIN threads :
              (j # k /\ threads[j].state = "writing" /\ threads[k].state = "writing")
              => threads[j].dest # threads[k].dest
        /\ \A k \in DOMAIN threads : CopyIntact(k)

\* ------------------------------------------------------------------- C14
\* The first drawing create_cover_page attempts for this number raises: the
\* shaping capability throws or the "Arabic" font is missing, or, without the
\* capability, the drawing of the raw label raises.
FirstDrawingFails(doc_number) ==
    IF ARABIC_SUPPORT
    THEN doc_number \in shaping_raises \/ "Arabic" \notin registered_fonts
    ELSE doc_number \in draw_raises

\* The cover bears the number alone, in a font that needs no registration.
IsPlainNumberCover(cover, doc_number) ==
    /\ ~cover.raised
    /\ cover.font \in StandardFonts
    /\ cover.text = formatted_number(doc_number)

\* The item was written as its source's pages behind one cover page, and no
\* exception left the try block.
WroteCoverPlusSource(w) ==
    /\ w.outcome = "cover"
    /\ IsCoverPlusSource(w)

\* C14 as stated: whenever the shaping capability is unavailable or throws,
\* or the font is missing, create_cover_page returns a one-page cover that
\* bears the plain numeric label in a Latin font that is always available;
\* and in every installation the item is written as source pages plus one
\* cover page when no file operation fails.
CoverFallsBackToPlainNumber ==
    (ProcessPdfsRan /\ add_cover_page) =>
        \A k \in DOMAIN written :
            LET w == written[k]
                doc_number == FirstIndexNumber(basename(w.url))
            IN /\ ~w.cover.raised
               /\ (~ARABIC_SUPPORT \/ doc_number \in shaping_raises
                      \/ "Arabic" \notin registered_fonts)
                  => IsPlainNumberCover(w.cover, doc_number)
               /\ (faults = 0 /\ w.source.readable) => WroteCoverPlusSource(w)

\* C14 amended: create_cover_page always returns a one-page cover. With the
\* shaping capability, the cover bears the reshaped label in the "Arabic"
\* font, and the plain number in Helvetica-Bold when the capability throws or
\* that font is missing. Without the capability, the cover bears the raw
\* label and number in Times-Roman, and the plain number in Helvetica-Bold
\* only when that drawing raises. In every case the item is written as
\* source pages plus one cover page when no file operation fails.
CoverDrawnByTier ==
    (ProcessPdfsRan /\ add_cover_page) =>
        \A k \in DOMAIN written :
            LET w == written[k]
                doc_number == FirstIndexNumber(basename(w.url))
            IN /\ ~w.cover.raised
               /\ FirstDrawingFails(doc_number) =>
                     /\ IsPlainNumberCover(w.cover, doc_number)
                     /\ w.cover.font = "Helvetica-Bold"
               /\ (~FirstDrawingFails(doc_number) /\ ARABIC_SUPPORT) =>
                     /\ w.cover.font = "Arabic"
                     /\ w.cover.text = bidi_text(doc_number)
               /\ (~FirstDrawingFails(doc_number) /\ ~ARABIC_SUPPORT) =>
                     /\ w.cover.font = "Times-Roman"
                     /\ w.cover.text = arabic_text(doc_number)
               /\ (faults = 0 /\ w.source.readable) => WroteCoverPlusSource(w)

\* C14 witness: in a run with the shaping packages but no "Arabic" font, and
\* in which shaping throws for the second number, two items were written,
\* each as its source behind a cover bearing the plain number.
CoverDrawnByTierWitness ==
    /\ ARABIC_SUPPORT
    /\ "Arabic" \notin registered_fonts
    /\ 2 \in shaping_raises
    /\ Len(written) = 2
    /\ written[1].cover.text = formatted_number(1)
    /\ written[2].cover.text = formatted_number(2)
    /\ \A k \in DOMAIN written : WroteCoverPlusSource(written[k])


====
